---- MODULE Spec2Model ----
(***************************************************************************)
(* Budapest Metro Builder: the construction rule engine (canConnect,       *)
(* addSegment), the card and round state machine (drawCard, switchCard,    *)
(* nextRound) and the scoring (computeCurrentRoundScore, finishGame) of    *)
(* src/main.js, driven by the handlers the script wires to the page.       *)
(*                                                                         *)
(* Rendering, the rules modal, the elapsed-time ticker and the             *)
(* localStorage score list hold presentation state only and are left out.  *)
(* state.heldCard is written with null everywhere and is left out too.     *)
(* The pencil (planning line) mode only adds svg nodes; a click in pencil  *)
(* mode leaves the engine as a rejected connection does, and               *)
(* state.pencilMode is left out.                                           *)
(***************************************************************************)
EXTENDS Integers, Sequences, FiniteSets

(***************************************************************************)
(* Bounds of the model.                                                    *)
(***************************************************************************)
\* Spec, the card and round machine in full with little building:
\* how many of the tabulated Math.random streams buildDeck may consume
NumStreams == 3
\* how many of the tabulated outcomes of the random sort of the line ids
NumOrders == 1
\* how many segments a game places on the board before the player stops
\* building
MaxSegments == 2
\* SpecBuild, more building under fewer shuffles: the same three bounds
NumBuildStreams == 1
NumBuildOrders == 1
MaxBuildSegments == 3

\* SpecScore, one segment a line so that every line gets to build before
\* the game is scored: streams, orders, segments on the board, and segments
\* of one line
NumScoreStreams == 1
NumScoreOrders == 1
MaxScoreSegments == 4
MaxLineSegments == 1

(***************************************************************************)
(* 0) Constants of the program.                                            *)
(***************************************************************************)
GRID_SIZE == 10
STATION_TRANSFER_EXCEPTION == 30
\* round-ending limits of updateRoundEndingState
TypeLimit == 5
MaxCards == 8
\* null/undefined of a station's district and side
NoDistrict == 0
NoSide == "none"

(***************************************************************************)
(* 2) The station dataset served as stations.json: an input of the        *)
(* program.  Six stations in a corner of the 10 x 10 grid: the four start  *)
(* stations, the transfer station 30 and a wildcard station 5.             *)
(*                                                                         *)
(*        x=0   x=1   x=2   x=3                                            *)
(*   y=0  19    .     3     .                                              *)
(*   y=1  .     30    .     5                                              *)
(*   y=2  28    .     39    .                                              *)
(***************************************************************************)
St(id, x, y, type, train, side, district) ==
  [id |-> id, x |-> x, y |-> y, type |-> type,
   train |-> train, side |-> side, district |-> district]

Dataset ==
  { St(19, 0, 0, "A", TRUE,  "buda", 1),
    St(3,  2, 0, "B", FALSE, "buda", 1),
    St(30, 1, 1, "C", TRUE,  "pest", 2),
    St(5,  3, 1, "?", FALSE, "buda", 1),
    St(28, 0, 2, "C", FALSE, NoSide, NoDistrict),
    St(39, 2, 2, "D", TRUE,  "pest", 3) }

\* the ids a click can carry: the station nodes renderStations creates
StationIds == { s.id : s \in Dataset }

Basic(s) == [id |-> s.id, x |-> s.x, y |-> s.y, type |-> s.type]

(***************************************************************************)
(* 5) Game configuration.                                                  *)
(***************************************************************************)
LINES ==
  { [id |-> 0, name |-> "M1", start |-> 19],
    [id |-> 1, name |-> "M2", start |-> 28],
    [id |-> 2, name |-> "M3", start |-> 3],
    [id |-> 3, name |-> "M4", start |-> 39] }

LineIds == { l.id : l \in LINES }

LineById(lineId) == CHOOSE l \in LINES : l.id = lineId

StartOf(lineId) == LineById(lineId).start

NoCard == [ptype |-> "none", sym |-> "none"]

\* the deck of buildDeck before the shuffle: ptype-major, symbol-minor
BaseDeck ==
  << [ptype |-> "center", sym |-> "A"], [ptype |-> "center", sym |-> "B"],
     [ptype |-> "center", sym |-> "C"], [ptype |-> "center", sym |-> "D"],
     [ptype |-> "center", sym |-> "Joker"],
     [ptype |-> "side", sym |-> "A"], [ptype |-> "side", sym |-> "B"],
     [ptype |-> "side", sym |-> "C"], [ptype |-> "side", sym |-> "D"],
     [ptype |-> "side", sym |-> "Joker"] >>

(***************************************************************************)
(* Math.random.  A stream lists, for i = 9 down to 1, the value            *)
(* (Math.random() * (i + 1)) | 0 of the Fisher-Yates loop, as a 0-based    *)
(* index j <= i.                                                           *)
(***************************************************************************)
RandomStreams ==
  << <<9, 8, 7, 6, 5, 4, 3, 2, 1>>,
     <<6, 5, 4, 3, 2, 1, 0, 2, 0>>,
     <<4, 4, 3, 3, 2, 2, 1, 1, 0>>,
     <<3, 2, 2, 2, 1, 1, 1, 0, 0>>,
     <<0, 0, 0, 0, 0, 0, 0, 0, 0>> >>

\* the first n entries of a table
FirstN(n, table) == 1 .. (IF n < Len(table) THEN n ELSE Len(table))

Streams == FirstN(NumStreams, RandomStreams)
BuildStreams == FirstN(NumBuildStreams, RandomStreams)
ScoreStreams == FirstN(NumScoreStreams, RandomStreams)

\* [deck[i], deck[j]] = [deck[j], deck[i]] on 0-based i, j
Swap(deck, i, j) ==
  [k \in 1 .. Len(deck) |->
     IF k = i + 1 THEN deck[j + 1]
     ELSE IF k = j + 1 THEN deck[i + 1]
     ELSE deck[k]]

RECURSIVE Shuffle(_, _, _)
Shuffle(deck, i, js) ==
  IF i < 1 THEN deck
  ELSE Shuffle(Swap(deck, i, js[Len(deck) - i]), i - 1, js)

buildDeck(k) == Shuffle(BaseDeck, Len(BaseDeck) - 1, RandomStreams[k])

\* deck.pop(): the last element comes off
Last(deck) == deck[Len(deck)]
Front(deck) == SubSeq(deck, 1, Len(deck) - 1)

\* outcomes of [...LINES.map(l => l.id)].sort(() => Math.random() - 0.5)
LineOrders ==
  << <<0, 1, 2, 3>>, <<3, 2, 1, 0>>, <<1, 0, 3, 2>>,
     <<2, 3, 0, 1>>, <<1, 2, 3, 0>>, <<3, 0, 2, 1>> >>

Orders == { LineOrders[k] : k \in FirstN(NumOrders, LineOrders) }
BuildOrders == { LineOrders[k] : k \in FirstN(NumBuildOrders, LineOrders) }
ScoreOrders == { LineOrders[k] : k \in FirstN(NumScoreOrders, LineOrders) }

\* the deck state.deck holds after `if (state.deck.length === 0) state.deck =
\* buildDeck()`, over the streams S
Refilled(d, S) == IF Len(d) = 0 THEN { buildDeck(k) : k \in S } ELSE {d}

(***************************************************************************)
(* State.                                                                  *)
(***************************************************************************)
VARIABLES
  dataStatus,            \* initData: "pending", "loaded" or "failed"
  lastStations,          \* basic station records
  stationMetaById,       \* full station records
  domStations,           \* ids of the .station nodes on the board
  screen,                \* which of #menu / #game has class "active"
  order, roundIndex, deck, drawsThisRound, centerCount, sideCount,
  currentCard, buildUsedForThisCard, roundComplete, switchUsedThisRound,
                         \* fields of state
  lineStates,            \* Map lineId -> {segments, endpoints, visited}
  stationOwner,          \* Map stationId -> lineId
  roundResults,          \* [{lineId, PK, PM, PD, FP}]
  btnDrawDisabled, btnSkipDisabled, btnEndDisabled,
  finalResult            \* what finishGame shows, or NoResult

dataVars == <<dataStatus, lastStations, stationMetaById>>
cardVars == <<deck, drawsThisRound, centerCount, sideCount, currentCard,
              buildUsedForThisCard, roundComplete, switchUsedThisRound>>
btnVars == <<btnDrawDisabled, btnSkipDisabled, btnEndDisabled>>
buildVars == <<lineStates, stationOwner>>

vars == <<dataStatus, lastStations, stationMetaById, domStations, screen,
          order, roundIndex, deck, drawsThisRound, centerCount, sideCount,
          currentCard, buildUsedForThisCard, roundComplete,
          switchUsedThisRound, lineStates, stationOwner, roundResults,
          btnDrawDisabled, btnSkipDisabled, btnEndDisabled, finalResult>>

NoResult == [finalScore |-> -1, PP |-> 0, P2 |-> 0, P3 |-> 0, P4 |-> 0]

(***************************************************************************)
(* 2) Station index.                                                       *)
(***************************************************************************)
KnownIds == { s.id : s \in lastStations }

\* stationById.get(id); only applied to known ids
stationById(id) == CHOOSE s \in lastStations : s.id = id

\* stationAt.get(`${x},${y}`) is truthy
stationAt(x, y) == \E s \in lastStations : s.x = x /\ s.y = y

HasMeta(id) == \E s \in stationMetaById : s.id = id

\* getStationMeta(id) of a known id: the full record, or the basic one
\* with train = false, side = null, district = null
getStationMeta(id) ==
  IF HasMeta(id) THEN CHOOSE s \in stationMetaById : s.id = id
  ELSE LET b == stationById(id) IN
       St(b.id, b.x, b.y, b.type, FALSE, NoSide, NoDistrict)

(***************************************************************************)
(* 3) Geometry helpers.                                                    *)
(***************************************************************************)
Abs(n) == IF n < 0 THEN -n ELSE n
Sign(n) == IF n > 0 THEN 1 ELSE IF n < 0 THEN -1 ELSE 0
Min(a, b) == IF a <= b THEN a ELSE b
Max(a, b) == IF a >= b THEN a ELSE b

isStraightOrDiag(a, b) ==
  LET dx == Abs(a.x - b.x)
      dy == Abs(a.y - b.y)
  IN dx = 0 \/ dy = 0 \/ dx = dy

\* the while loop of pathPassesThroughStation from cell (x, y)
RECURSIVE WalkPath(_, _, _, _, _)
WalkPath(x, y, dx, dy, b) ==
  IF x = b.x /\ y = b.y THEN FALSE
  ELSE IF stationAt(x, y) THEN TRUE
  ELSE WalkPath(x + dx, y + dy, dx, dy, b)

\* the pass-through test that sees no station on the way
pathPassesThroughStation_Never(a, b) == FALSE

pathPassesThroughStation(a, b) ==
  LET dx == Sign(b.x - a.x)
      dy == Sign(b.y - a.y)
  IN WalkPath(a.x + dx, a.y + dy, dx, dy, b)

cross(p, q, r) == (q.x - p.x) * (r.y - p.y) - (q.y - p.y) * (r.x - p.x)

onSeg(p, q, r) ==
  /\ Min(p.x, r.x) <= q.x
  /\ q.x <= Max(p.x, r.x)
  /\ Min(p.y, r.y) <= q.y
  /\ q.y <= Max(p.y, r.y)

\* segmentsIntersect without the straddle test: only touching is seen
segmentsIntersect_TouchOnly(a1, a2, b1, b2) ==
  LET d1 == cross(a1, a2, b1)
      d2 == cross(a1, a2, b2)
      d3 == cross(b1, b2, a1)
      d4 == cross(b1, b2, a2)
  IN \/ d1 = 0 /\ onSeg(a1, b1, a2)
     \/ d2 = 0 /\ onSeg(a1, b2, a2)
     \/ d3 = 0 /\ onSeg(b1, a1, b2)
     \/ d4 = 0 /\ onSeg(b1, a2, b2)

segmentsIntersect(a1, a2, b1, b2) ==
  LET d1 == cross(a1, a2, b1)
      d2 == cross(a1, a2, b2)
      d3 == cross(b1, b2, a1)
      d4 == cross(b1, b2, a2)
  IN \/ /\ (d1 > 0 /\ d2 < 0) \/ (d1 < 0 /\ d2 > 0)
        /\ (d3 > 0 /\ d4 < 0) \/ (d3 < 0 /\ d4 > 0)
     \/ d1 = 0 /\ onSeg(a1, b1, a2)
     \/ d2 = 0 /\ onSeg(a1, b2, a2)
     \/ d3 = 0 /\ onSeg(b1, a1, b2)
     \/ d4 = 0 /\ onSeg(b1, a2, b2)

(***************************************************************************)
(* 6) Per-line build state.                                                *)
(***************************************************************************)
\* state.order[state.roundIndex]; the handlers below run while it is defined
CurLineId == order[roundIndex + 1]

currentLine == LineById(CurLineId)

\* a fresh build state that opens the start station as an endpoint
NewLineState_StartOpen(lineId) ==
  [segments |-> <<>>, endpoints |-> {StartOf(lineId)},
   visited |-> {StartOf(lineId)}]

NewLineState(lineId) ==
  [segments |-> <<>>, endpoints |-> {}, visited |-> {StartOf(lineId)}]

\* the Map after ensureLineState(lineId)
ensureLineState(ls, lineId) ==
  IF lineId \in DOMAIN ls THEN ls
  ELSE [l \in DOMAIN ls \cup {lineId} |->
          IF l = lineId THEN NewLineState(lineId) ELSE ls[l]]

\* every segment of every line, as drawn from the Map ls
AllSegments(ls) ==
  UNION { { ls[l].segments[i] : i \in 1 .. Len(ls[l].segments) } :
          l \in DOMAIN ls }

(***************************************************************************)
(* 7) Station symbol vs card.                                              *)
(***************************************************************************)
\* any station matches once a card is drawn
stationMatchesCard_AnyTarget(target) == currentCard # NoCard

stationMatchesCard(target) ==
  IF currentCard = NoCard THEN FALSE
  ELSE IF target.id = STATION_TRANSFER_EXCEPTION THEN TRUE
  ELSE IF currentCard.sym = "Joker" \/ target.type = "?" THEN TRUE
  ELSE target.type = currentCard.sym

(***************************************************************************)
(* 8) Validation and mutations.                                            *)
(***************************************************************************)
\* the exemption widened to the start station of any line
isTransferAllowed_AnyStart(id, startId) ==
  id = STATION_TRANSFER_EXCEPTION \/ \E l \in LINES : l.start = id

isTransferAllowed(id, startId) ==
  id = STATION_TRANSFER_EXCEPTION \/ id = startId

\* the ownership test of one station of the pair
OwnerAllows(id, lineId, startId) ==
  ~ ( /\ id \in DOMAIN stationOwner
      /\ stationOwner[id] # lineId
      /\ ~ isTransferAllowed(id, startId) )

\* the duplicate test in the direction of the stored segment only
IsDuplicate_SameDirection(s, fromId, toId) ==
  s.a = fromId /\ s.b = toId

IsDuplicate(s, fromId, toId) ==
  \/ s.a = fromId /\ s.b = toId
  \/ s.a = toId /\ s.b = fromId

sharesEndpoint(s, fromId, toId) ==
  fromId = s.a \/ fromId = s.b \/ toId = s.a \/ toId = s.b

\* the crossing loop: an existing segment that bars the proposed one
Crosses(s, A, B, fromId, toId) ==
  /\ segmentsIntersect([x |-> A.x, y |-> A.y], [x |-> B.x, y |-> B.y],
                       [x |-> stationById(s.a).x, y |-> stationById(s.a).y],
                       [x |-> stationById(s.b).x, y |-> stationById(s.b).y])
  /\ ~ sharesEndpoint(s, fromId, toId)

\* the build state canConnect reads: ensureLineState(lineId)
CurLS == ensureLineState(lineStates, CurLineId)[CurLineId]

\* 1. both ids resolve to stations and differ
KnownDistinct(fromId, toId) ==
  fromId \in KnownIds /\ toId \in KnownIds /\ fromId # toId

\* the ownership test on the origin only
OwnershipOk_FromOnly(fromId, toId) ==
  OwnerAllows(fromId, CurLineId, currentLine.start)

\* 2. ownership of both stations
OwnershipOk(fromId, toId) ==
  /\ OwnerAllows(fromId, CurLineId, currentLine.start)
  /\ OwnerAllows(toId, CurLineId, currentLine.start)

\* the origin test on the first segment only
OriginOk_FirstOnly(fromId) ==
  Len(CurLS.segments) = 0 => fromId = currentLine.start

\* 4. first segment from the start, later ones from an open endpoint
OriginOk(fromId) ==
  IF Len(CurLS.segments) = 0 THEN fromId = currentLine.start
  ELSE fromId \in CurLS.endpoints

\* 7. no segment of any line joins the same pair, in either direction
NoDuplicate(fromId, toId) ==
  \A s \in AllSegments(lineStates) : ~ IsDuplicate(s, fromId, toId)

\* 8. no segment of any line crosses the proposed one
NoCrossing(fromId, toId) ==
  \A s \in AllSegments(lineStates) :
    ~ Crosses(s, stationById(fromId), stationById(toId), fromId, toId)

\* the loop test that lets every target through
NoLoop_AnyTarget(toId) == TRUE

\* 9. the target is not yet visited by the line
NoLoop(toId) == toId \notin CurLS.visited

\* canConnect without the pass-through test
canConnect_PassThrough(fromId, toId) ==
  /\ KnownDistinct(fromId, toId)
  /\ OwnershipOk(fromId, toId)
  /\ isStraightOrDiag(stationById(fromId), stationById(toId))
  /\ OriginOk(fromId)
  /\ stationMatchesCard(stationById(toId))
  /\ NoDuplicate(fromId, toId)
  /\ NoCrossing(fromId, toId)
  /\ NoLoop(toId)

\* canConnect without the alignment test: the walk of the pass-through test
\* is taken on aligned pairs only
canConnect_Unaligned(fromId, toId) ==
  /\ KnownDistinct(fromId, toId)
  /\ OwnershipOk(fromId, toId)
  /\ OriginOk(fromId)
  /\ stationMatchesCard(stationById(toId))
  /\ isStraightOrDiag(stationById(fromId), stationById(toId))
       => ~ pathPassesThroughStation(stationById(fromId), stationById(toId))
  /\ NoDuplicate(fromId, toId)
  /\ NoCrossing(fromId, toId)
  /\ NoLoop(toId)

\* canConnect that lets a station be joined to itself: neither the test of
\* distinct ids nor the loop test bars the pair (id, id)
canConnect_SelfAllowed(fromId, toId) ==
  /\ fromId \in KnownIds /\ toId \in KnownIds
  /\ OwnershipOk(fromId, toId)
  /\ isStraightOrDiag(stationById(fromId), stationById(toId))
  /\ OriginOk(fromId)
  /\ stationMatchesCard(stationById(toId))
  /\ ~ pathPassesThroughStation(stationById(fromId), stationById(toId))
  /\ NoDuplicate(fromId, toId)
  /\ NoCrossing(fromId, toId)
  /\ fromId = toId \/ NoLoop(toId)

canConnect(fromId, toId) ==
  /\ KnownDistinct(fromId, toId)
  /\ OwnershipOk(fromId, toId)
  /\ isStraightOrDiag(stationById(fromId), stationById(toId))
  /\ OriginOk(fromId)
  /\ stationMatchesCard(stationById(toId))
  /\ ~ pathPassesThroughStation(stationById(fromId), stationById(toId))
  /\ NoDuplicate(fromId, toId)
  /\ NoCrossing(fromId, toId)
  /\ NoLoop(toId)

\* the toggle that only ever adds
toggle_AddOnly(set, v) == set \cup {v}

toggle(set, v) == IF v \in set THEN set \ {v} ELSE set \cup {v}

\* the ownership assignment that never takes a start station back
Claim_NoReclaim(owner, id, lineId, startId) ==
  IF id # STATION_TRANSFER_EXCEPTION /\ id \notin DOMAIN owner
  THEN [k \in DOMAIN owner \cup {id} |-> IF k = id THEN lineId ELSE owner[k]]
  ELSE owner

\* the ownership assignment of addSegment for one station of the pair
Claim(owner, id, lineId, startId) ==
  IF id # STATION_TRANSFER_EXCEPTION /\ (id = startId \/ id \notin DOMAIN owner)
  THEN [k \in DOMAIN owner \cup {id} |-> IF k = id THEN lineId ELSE owner[k]]
  ELSE owner

\* addSegment that keeps only the two stations of the new segment as visited
addSegmentLines_VisitedReplaced(fromId, toId) ==
  LET lineId == CurLineId
      ls == ensureLineState(lineStates, lineId)
      LS == ls[lineId]
  IN [ls EXCEPT ![lineId] =
        [segments |-> Append(LS.segments, [a |-> fromId, b |-> toId]),
         endpoints |-> toggle(toggle(LS.endpoints, fromId), toId),
         visited |-> {fromId, toId}]]

\* lineStates after addSegment(fromId, toId)
addSegmentLines(fromId, toId) ==
  LET lineId == CurLineId
      ls == ensureLineState(lineStates, lineId)
      LS == ls[lineId]
  IN [ls EXCEPT ![lineId] =
        [segments |-> Append(LS.segments, [a |-> fromId, b |-> toId]),
         endpoints |-> toggle(toggle(LS.endpoints, fromId), toId),
         visited |-> LS.visited \cup {fromId, toId}]]

\* stationOwner after addSegment(fromId, toId)
addSegmentOwner(fromId, toId) ==
  Claim(Claim(stationOwner, fromId, CurLineId, currentLine.start),
        toId, CurLineId, currentLine.start)

(***************************************************************************)
(* Scoring.                                                                *)
(***************************************************************************)
\* districtCounts of computeCurrentRoundScore, as district -> count
DistrictsOf(visited) ==
  { getStationMeta(sid).district : sid \in visited \cap KnownIds }
    \ {NoDistrict}

DistrictCount(visited, d) ==
  Cardinality({ sid \in visited \cap KnownIds :
                  getStationMeta(sid).district = d })

MaxOf(S) == CHOOSE m \in S : \A n \in S : n <= m

\* a.side and b.side defined and different
IsCrossing(seg) ==
  /\ seg.a \in KnownIds
  /\ seg.b \in KnownIds
  /\ getStationMeta(seg.a).side # NoSide
  /\ getStationMeta(seg.b).side # NoSide
  /\ getStationMeta(seg.a).side # getStationMeta(seg.b).side

\* the round score with FP as the sum of the three parts
computeCurrentRoundScore_Sum(lineId, LS) ==
  LET ds == DistrictsOf(LS.visited)
      PK == Cardinality(ds)
      PM == IF ds # {} THEN MaxOf({ DistrictCount(LS.visited, d) : d \in ds })
            ELSE 0
      PD == Cardinality({ i \in 1 .. Len(LS.segments) :
                            IsCrossing(LS.segments[i]) })
  IN [lineId |-> lineId, PK |-> PK, PM |-> PM, PD |-> PD,
      FP |-> PK + PM + PD]

\* the result computeCurrentRoundScore pushes, for build state LS of lineId
computeCurrentRoundScore(lineId, LS) ==
  LET ds == DistrictsOf(LS.visited)
      PK == Cardinality(ds)
      PM == IF ds # {} THEN MaxOf({ DistrictCount(LS.visited, d) : d \in ds })
            ELSE 0
      PD == Cardinality({ i \in 1 .. Len(LS.segments) :
                            IsCrossing(LS.segments[i]) })
  IN [lineId |-> lineId, PK |-> PK, PM |-> PM, PD |-> PD,
      FP |-> PK * PM + PD]

RECURSIVE SumFP(_)
SumFP(rs) == IF rs = <<>> THEN 0 ELSE rs[1].FP + SumFP(Tail(rs))

\* stationLines of finishGame: the lines whose visited set holds sid
LinesVisiting(ls, sid) == { l \in DOMAIN ls : sid \in ls[l].visited }

AllVisited(ls) == UNION { ls[l].visited : l \in DOMAIN ls }

\* updatePPView: train stations visited by any line
PPOf(ls) ==
  Cardinality({ sid \in AllVisited(ls) \cap KnownIds :
                  getStationMeta(sid).train })

\* finishGame with `count >= 3` for P3: a station of four lines counts twice
finishGame_P3Overlaps(ls, rs) ==
  LET P2 == Cardinality({ sid \in AllVisited(ls) :
                            Cardinality(LinesVisiting(ls, sid)) = 2 })
      P3 == Cardinality({ sid \in AllVisited(ls) :
                            Cardinality(LinesVisiting(ls, sid)) >= 3 })
      P4 == Cardinality({ sid \in AllVisited(ls) :
                            Cardinality(LinesVisiting(ls, sid)) >= 4 })
      PP == PPOf(ls)
  IN [finalScore |-> SumFP(rs) + PP + 2 * P2 + 5 * P3 + 9 * P4,
      PP |-> PP, P2 |-> P2, P3 |-> P3, P4 |-> P4]

\* what finishGame computes from the build states and the round results
finishGame(ls, rs) ==
  LET P2 == Cardinality({ sid \in AllVisited(ls) :
                            Cardinality(LinesVisiting(ls, sid)) = 2 })
      P3 == Cardinality({ sid \in AllVisited(ls) :
                            Cardinality(LinesVisiting(ls, sid)) = 3 })
      P4 == Cardinality({ sid \in AllVisited(ls) :
                            Cardinality(LinesVisiting(ls, sid)) >= 4 })
      PP == PPOf(ls)
  IN [finalScore |-> SumFP(rs) + PP + 2 * P2 + 5 * P3 + 9 * P4,
      PP |-> PP, P2 |-> P2, P3 |-> P3, P4 |-> P4]

(***************************************************************************)
(* 9) Screen flow.                                                         *)
(***************************************************************************)
EmptyMap == [k \in {} |-> 0]

Init ==
  /\ dataStatus = "pending"
  /\ lastStations = {}
  /\ stationMetaById = {}
  /\ domStations = {}
  /\ screen = "menu"
  /\ order = <<>>
  /\ roundIndex = 0
  /\ deck = <<>>
  /\ drawsThisRound = 0
  /\ centerCount = 0
  /\ sideCount = 0
  /\ currentCard = NoCard
  /\ buildUsedForThisCard = FALSE
  /\ roundComplete = FALSE
  /\ switchUsedThisRound = FALSE
  /\ lineStates = EmptyMap
  /\ stationOwner = EmptyMap
  /\ roundResults = <<>>
  \* the script disables no button before a game starts
  /\ btnDrawDisabled = FALSE
  /\ btnSkipDisabled = FALSE
  /\ btnEndDisabled = FALSE
  /\ finalResult = NoResult

\* initData, the fetch and the parse went through
LoadOk ==
  /\ dataStatus = "pending"
  /\ dataStatus' = "loaded"
  /\ lastStations' = { Basic(s) : s \in Dataset }
  /\ stationMetaById' = Dataset
  /\ UNCHANGED <<domStations, screen, order, roundIndex, cardVars,
                 buildVars, roundResults, btnVars,
                 finalResult>>

\* initData, the catch branch: the error is logged and nothing else happens
LoadFail ==
  /\ dataStatus = "pending"
  /\ dataStatus' = "failed"
  /\ UNCHANGED <<lastStations, stationMetaById, domStations, screen, order,
                 roundIndex, cardVars, buildVars, roundResults,
                 btnVars, finalResult>>

\* resetGameState without stationOwner.clear()
resetGameState_KeepsOwners ==
  /\ roundIndex' = 0
  /\ drawsThisRound' = 0
  /\ centerCount' = 0
  /\ sideCount' = 0
  /\ currentCard' = NoCard
  /\ buildUsedForThisCard' = FALSE
  /\ roundComplete' = FALSE
  /\ switchUsedThisRound' = FALSE
  /\ lineStates' = EmptyMap
  /\ stationOwner' = stationOwner
  /\ roundResults' = <<>>
  /\ finalResult' = NoResult
  /\ btnDrawDisabled' = FALSE
  /\ btnSkipDisabled' = FALSE
  /\ btnEndDisabled' = TRUE

\* the engine state resetGameState leaves, shared by its two callers
resetGameState ==
  /\ roundIndex' = 0
  /\ drawsThisRound' = 0
  /\ centerCount' = 0
  /\ sideCount' = 0
  /\ currentCard' = NoCard
  /\ buildUsedForThisCard' = FALSE
  /\ roundComplete' = FALSE
  /\ switchUsedThisRound' = FALSE
  /\ lineStates' = EmptyMap
  /\ stationOwner' = EmptyMap
  /\ roundResults' = <<>>
  /\ finalResult' = NoResult
  /\ btnDrawDisabled' = FALSE
  /\ btnSkipDisabled' = FALSE
  /\ btnEndDisabled' = TRUE

\* submit of #menu-form with a name: startGame(name)
startGame(S, O) ==
  /\ screen = "menu"
  /\ resetGameState
  /\ screen' = "game"
  /\ order' \in O
  /\ \E k \in S : deck' = buildDeck(k)
  /\ domStations' = KnownIds
  /\ UNCHANGED dataVars

\* click on #btn-main-menu
MainMenu ==
  /\ screen = "game"
  /\ resetGameState
  /\ order' = <<>>
  /\ deck' = <<>>
  /\ domStations' = {}
  /\ screen' = "menu"
  /\ UNCHANGED dataVars

\* window resize while the game screen shows: renderStations(lastStations)
Resize ==
  /\ screen = "game"
  /\ domStations' = KnownIds
  /\ UNCHANGED <<dataVars, screen, order, roundIndex, cardVars,
                 buildVars, roundResults, btnVars,
                 finalResult>>

\* the card limit tested with > instead of >=
RoundEnds_OffByOne(draws, center, side) ==
  (center >= TypeLimit \/ side >= TypeLimit) \/ draws > MaxCards

\* the round ends on the platform counts only
RoundEnds_NoCardLimit(draws, center, side) ==
  center >= TypeLimit \/ side >= TypeLimit

\* roundComplete as updateRoundEndingState sets it from the three counters
RoundEnds(draws, center, side) ==
  (center >= TypeLimit \/ side >= TypeLimit) \/ draws >= MaxCards

\* updateRoundEndingState on the counters draws, center, side
updateRoundEndingState(draws, center, side) ==
  /\ roundComplete' = RoundEnds(draws, center, side)
  /\ btnDrawDisabled' = RoundEnds(draws, center, side)
  /\ btnSkipDisabled' = RoundEnds(draws, center, side)
  /\ btnEndDisabled' = ~ RoundEnds(draws, center, side)

\* drawCard without the test of roundComplete
drawCard_Unguarded(S) ==
  /\ screen = "game"
  /\ \E d \in Refilled(deck, S) :
       LET card == Last(d)
           center == IF card.ptype = "center" THEN centerCount + 1
                     ELSE centerCount
           side == IF card.ptype = "side" THEN sideCount + 1 ELSE sideCount
       IN /\ deck' = Front(d)
          /\ currentCard' = card
          /\ drawsThisRound' = drawsThisRound + 1
          /\ buildUsedForThisCard' = FALSE
          /\ centerCount' = center
          /\ sideCount' = side
          /\ updateRoundEndingState(drawsThisRound + 1, center, side)
          /\ UNCHANGED <<dataVars, domStations, screen, order, roundIndex,
                         switchUsedThisRound, buildVars,
                         roundResults, finalResult>>

\* drawCard, behind #btn-draw and #btn-skip; it carries its own guard
drawCard(S) ==
  /\ screen = "game"
  /\ IF roundComplete THEN UNCHANGED vars
     ELSE \E d \in Refilled(deck, S) :
       LET card == Last(d)
           center == IF card.ptype = "center" THEN centerCount + 1
                     ELSE centerCount
           side == IF card.ptype = "center" THEN sideCount
                   ELSE IF card.ptype = "side" THEN sideCount + 1
                   ELSE sideCount
       IN /\ deck' = Front(d)
          /\ currentCard' = card
          /\ drawsThisRound' = drawsThisRound + 1
          /\ buildUsedForThisCard' = FALSE
          /\ centerCount' = center
          /\ sideCount' = side
          /\ updateRoundEndingState(drawsThisRound + 1, center, side)
          /\ UNCHANGED <<dataVars, domStations, screen, order, roundIndex,
                         switchUsedThisRound, buildVars,
                         roundResults, finalResult>>

\* switchCard that also returns when the round is marked ended
switchCard_LockedWhenEnded(S) ==
  /\ screen = "game"
  /\ IF \/ currentCard = NoCard
        \/ buildUsedForThisCard
        \/ switchUsedThisRound
        \/ roundComplete
     THEN UNCHANGED vars
     ELSE \E d \in Refilled(deck, S) :
          /\ deck' = Front(d)
          /\ currentCard' = Last(d)
          /\ switchUsedThisRound' = TRUE
          /\ updateRoundEndingState(drawsThisRound, centerCount, sideCount)
          /\ UNCHANGED <<dataVars, domStations, screen, order, roundIndex,
                         drawsThisRound, centerCount, sideCount,
                         buildUsedForThisCard, buildVars,
                         roundResults, finalResult>>

\* switchCard without the once-per-round test
switchCard_Unlimited(S) ==
  /\ screen = "game"
  /\ IF \/ currentCard = NoCard
        \/ buildUsedForThisCard
     THEN UNCHANGED vars
     ELSE \E d \in Refilled(deck, S) :
          /\ deck' = Front(d)
          /\ currentCard' = Last(d)
          /\ switchUsedThisRound' = TRUE
          /\ updateRoundEndingState(drawsThisRound, centerCount, sideCount)
          /\ UNCHANGED <<dataVars, domStations, screen, order, roundIndex,
                         drawsThisRound, centerCount, sideCount,
                         buildUsedForThisCard, buildVars,
                         roundResults, finalResult>>

\* switchCard without the test of the build-used flag
switchCard_UsedCard(S) ==
  /\ screen = "game"
  /\ IF \/ currentCard = NoCard
        \/ switchUsedThisRound
     THEN UNCHANGED vars
     ELSE \E d \in Refilled(deck, S) :
          /\ deck' = Front(d)
          /\ currentCard' = Last(d)
          /\ switchUsedThisRound' = TRUE
          /\ updateRoundEndingState(drawsThisRound, centerCount, sideCount)
          /\ UNCHANGED <<dataVars, domStations, screen, order, roundIndex,
                         drawsThisRound, centerCount, sideCount,
                         buildUsedForThisCard, buildVars,
                         roundResults, finalResult>>

\* switchCard, behind btnSwitch
switchCard(S) ==
  /\ screen = "game"
  /\ IF \/ currentCard = NoCard
        \/ buildUsedForThisCard
        \/ switchUsedThisRound
     THEN UNCHANGED vars
     ELSE \E d \in Refilled(deck, S) :
          /\ deck' = Front(d)
          /\ currentCard' = Last(d)
          /\ switchUsedThisRound' = TRUE
          /\ updateRoundEndingState(drawsThisRound, centerCount, sideCount)
          /\ UNCHANGED <<dataVars, domStations, screen, order, roundIndex,
                         drawsThisRound, centerCount, sideCount,
                         buildUsedForThisCard, buildVars,
                         roundResults, finalResult>>

\* nextRound without the call of computeCurrentRoundScore
nextRound_Unscored(ls, used, S) ==
  LET lineId == CurLineId
      ls2 == ensureLineState(ls, lineId)
      rs == roundResults
  IN /\ lineStates' = ls2
     /\ roundResults' = rs
     /\ roundIndex' = roundIndex + 1
     /\ IF roundIndex + 1 >= Len(order)
        THEN /\ finalResult' = finishGame(ls2, rs)
             /\ btnDrawDisabled' = TRUE
             /\ btnSkipDisabled' = TRUE
             /\ btnEndDisabled' = TRUE
             /\ buildUsedForThisCard' = used
             /\ UNCHANGED <<deck, drawsThisRound, centerCount, sideCount,
                            currentCard, roundComplete, switchUsedThisRound,
                            domStations>>
        ELSE /\ \E k \in S : deck' = buildDeck(k)
             /\ drawsThisRound' = 0
             /\ centerCount' = 0
             /\ sideCount' = 0
             /\ currentCard' = NoCard
             /\ buildUsedForThisCard' = FALSE
             /\ roundComplete' = FALSE
             /\ switchUsedThisRound' = FALSE
             /\ domStations' = KnownIds
             /\ btnEndDisabled' = TRUE
             /\ btnDrawDisabled' = FALSE
             /\ btnSkipDisabled' = FALSE
             /\ UNCHANGED finalResult

\* nextRound on the build states ls, with the build-used flag as the caller
\* left it
nextRound(ls, used, S) ==
  LET lineId == CurLineId
      ls2 == ensureLineState(ls, lineId)
      rs == Append(roundResults, computeCurrentRoundScore(lineId, ls2[lineId]))
  IN /\ lineStates' = ls2
     /\ roundResults' = rs
     /\ roundIndex' = roundIndex + 1
     /\ IF roundIndex + 1 >= Len(order)
        THEN \* finishGame
             /\ finalResult' = finishGame(ls2, rs)
             /\ btnDrawDisabled' = TRUE
             /\ btnSkipDisabled' = TRUE
             /\ btnEndDisabled' = TRUE
             /\ buildUsedForThisCard' = used
             /\ UNCHANGED <<deck, drawsThisRound, centerCount, sideCount,
                            currentCard, roundComplete, switchUsedThisRound,
                            domStations>>
        ELSE /\ \E k \in S : deck' = buildDeck(k)
             /\ drawsThisRound' = 0
             /\ centerCount' = 0
             /\ sideCount' = 0
             /\ currentCard' = NoCard
             /\ buildUsedForThisCard' = FALSE
             /\ roundComplete' = FALSE
             /\ switchUsedThisRound' = FALSE
             /\ domStations' = KnownIds
             /\ btnEndDisabled' = TRUE
             /\ btnDrawDisabled' = FALSE
             /\ btnSkipDisabled' = FALSE
             /\ UNCHANGED finalResult

\* the End button that is never disabled
endRound_AnyTime(S) ==
  /\ screen = "game"
  /\ roundIndex < Len(order)
  /\ nextRound(lineStates, buildUsedForThisCard, S)
  /\ UNCHANGED <<dataVars, screen, order, stationOwner>>

\* click on #btn-end, which fires only while the button is enabled
endRound(S) ==
  /\ screen = "game"
  /\ ~ btnEndDisabled
  /\ roundIndex < Len(order)
  /\ nextRound(lineStates, buildUsedForThisCard, S)
  /\ UNCHANGED <<dataVars, screen, order, stationOwner>>

(***************************************************************************)
(* 10) The click handler of the board.  The first click stores the origin  *)
(* in selectedStationId if it is the start (first segment) or an open      *)
(* endpoint, the test canConnect repeats on the second click; the two      *)
(* clicks of one connection are taken as one step attemptConnection(fromId,*)
(* toId) on station nodes of the board.  Once the game is finished         *)
(* state.order[state.roundIndex] is undefined, ensureLineState throws      *)
(* before anything is written and the click is lost.                       *)
(***************************************************************************)
ClickGuard(fromId, toId) ==
  /\ screen = "game"
  /\ fromId \in domStations
  /\ toId \in domStations
  /\ roundIndex < Len(order)

\* the click builds nothing without asking canConnect: no card drawn, or the
\* card already used
clickNoBuild ==
  /\ (\E fromId \in StationIds, toId \in StationIds :
        ClickGuard(fromId, toId)) = TRUE
  /\ currentCard = NoCard \/ buildUsedForThisCard
  /\ lineStates' = ensureLineState(lineStates, CurLineId)
  /\ UNCHANGED <<dataVars, domStations, screen, order, roundIndex, cardVars,
                 stationOwner, roundResults, btnVars, finalResult>>

\* the click reaches canConnect even with the card already used
Attempts_CardReused(fromId, toId) ==
  /\ ClickGuard(fromId, toId)
  /\ currentCard # NoCard

\* the click reaches canConnect(fromId, toId)
Attempts(fromId, toId) ==
  /\ ClickGuard(fromId, toId)
  /\ currentCard # NoCard
  /\ ~ buildUsedForThisCard

\* attemptConnection(fromId, toId) is rejected
Rejects(fromId, toId) == Attempts(fromId, toId) /\ ~ canConnect(fromId, toId)

\* attemptConnection(fromId, toId) is accepted
Accepts(fromId, toId) == Attempts(fromId, toId) /\ canConnect(fromId, toId)

\* attemptConnection(fromId, toId), canConnect says no
attemptRejected ==
  /\ (\E fromId \in StationIds, toId \in StationIds :
        Rejects(fromId, toId)) = TRUE
  /\ lineStates' = ensureLineState(lineStates, CurLineId)
  /\ UNCHANGED <<dataVars, domStations, screen, order, roundIndex, cardVars,
                 stationOwner, roundResults, btnVars, finalResult>>

\* segments on the board
TotalSegments == Cardinality(AllSegments(lineStates))

\* the accepted connection without the automatic nextRound
attemptAccepted_NoAutoAdvance(fromId, toId, S, M) ==
  /\ Accepts(fromId, toId)
  /\ TotalSegments < M
  /\ stationOwner' = addSegmentOwner(fromId, toId)
  /\ lineStates' = addSegmentLines(fromId, toId)
  /\ buildUsedForThisCard' = TRUE
  /\ UNCHANGED <<domStations, roundIndex, deck, drawsThisRound,
                 centerCount, sideCount, currentCard, roundComplete,
                 switchUsedThisRound, roundResults, btnVars,
                 finalResult>>
  /\ UNCHANGED <<dataVars, screen, order>>

\* attemptConnection(fromId, toId), canConnect says yes: addSegment, the card
\* is used, and a round already complete moves on
attemptAccepted(fromId, toId, S, M) ==
  /\ Accepts(fromId, toId)
  /\ TotalSegments < M
  /\ stationOwner' = addSegmentOwner(fromId, toId)
  /\ IF roundComplete
     THEN nextRound(addSegmentLines(fromId, toId), TRUE, S)
     ELSE /\ lineStates' = addSegmentLines(fromId, toId)
          /\ buildUsedForThisCard' = TRUE
          /\ UNCHANGED <<domStations, roundIndex, deck, drawsThisRound,
                         centerCount, sideCount, currentCard, roundComplete,
                         switchUsedThisRound, roundResults, btnVars,
                         finalResult>>
  /\ UNCHANGED <<dataVars, screen, order>>

\* every handler, over the streams S, the line orders O and at most M
\* segments
Step(S, O, M) ==
  \/ LoadOk
  \/ LoadFail
  \/ startGame(S, O)
  \/ MainMenu
  \/ Resize
  \/ drawCard(S)
  \/ switchCard(S)
  \/ endRound(S)
  \/ clickNoBuild
  \/ attemptRejected
  \/ \E fromId \in StationIds, toId \in StationIds :
       attemptAccepted(fromId, toId, S, M)

Next == Step(Streams, Orders, MaxSegments)

Spec == Init /\ [][Next]_vars

NextBuild == Step(BuildStreams, BuildOrders, MaxBuildSegments)

SpecBuild == Init /\ [][NextBuild]_vars

\* the segments of the line in play
CurSegments == IF CurLineId \in DOMAIN lineStates
               THEN Len(lineStates[CurLineId].segments) ELSE 0

\* every handler, with the player placing at most P segments a line
StepLine(S, O, M, P) ==
  \/ LoadOk
  \/ LoadFail
  \/ startGame(S, O)
  \/ MainMenu
  \/ Resize
  \/ drawCard(S)
  \/ switchCard(S)
  \/ endRound(S)
  \/ clickNoBuild
  \/ attemptRejected
  \/ \E fromId \in StationIds, toId \in StationIds :
       /\ Accepts(fromId, toId)
       /\ CurSegments < P
       /\ attemptAccepted(fromId, toId, S, M)

NextScore ==
  StepLine(ScoreStreams, ScoreOrders, MaxScoreSegments, MaxLineSegments)

SpecScore == Init /\ [][NextScore]_vars

(***************************************************************************)
(* Properties.                                                             *)
(***************************************************************************)
\* a round is being played: state.order[state.roundIndex] is a line
InRound == screen = "game" /\ roundIndex < Len(order)

Placed == AllSegments(lineStates)

ShareStation(s, t) == {s.a, s.b} \cap {t.a, t.b} # {}

\* the point (px / 2, py / 2) lies on the closed segment from a to b
OnHalfGrid(px, py, a, b) ==
  /\ (2 * b.x - 2 * a.x) * (py - 2 * a.y) = (2 * b.y - 2 * a.y) * (px - 2 * a.x)
  /\ Min(2 * a.x, 2 * b.x) <= px /\ px <= Max(2 * a.x, 2 * b.x)
  /\ Min(2 * a.y, 2 * b.y) <= py /\ py <= Max(2 * a.y, 2 * b.y)

\* two placed segments have a point of the plane in common; segments along
\* rows, columns and diagonals of the grid can only meet in half-grid points
MeetInPlane(s, t) ==
  LET a == stationById(s.a)
      b == stationById(s.b)
      c == stationById(t.a)
      d == stationById(t.b)
  IN \E px \in Min(2 * a.x, 2 * b.x) .. Max(2 * a.x, 2 * b.x),
        py \in Min(2 * a.y, 2 * b.y) .. Max(2 * a.y, 2 * b.y) :
       OnHalfGrid(px, py, a, b) /\ OnHalfGrid(px, py, c, d)

\* C1: two placed segments, of one line or of two, that share no endpoint
\* station have no point of the plane in common
C1_NoCrossing ==
  \A s \in Placed, t \in Placed :
    ~ ShareStation(s, t) => ~ MeetInPlane(s, t)

\* the proposed segment passes every test of canConnect but the crossing test
OnlyCrossingBars(fromId, toId) ==
  /\ Rejects(fromId, toId)
  /\ KnownDistinct(fromId, toId)
  /\ OwnershipOk(fromId, toId)
  /\ isStraightOrDiag(stationById(fromId), stationById(toId))
  /\ OriginOk(fromId)
  /\ stationMatchesCard(stationById(toId))
  /\ ~ pathPassesThroughStation(stationById(fromId), stationById(toId))
  /\ NoDuplicate(fromId, toId)
  /\ NoLoop(toId)

\* two segments without a common station are on the board and a connection
\* is turned down for crossing one of them
C1_Witness ==
  /\ \E s \in Placed, t \in Placed : ~ ShareStation(s, t)
  /\ \E fromId \in StationIds, toId \in StationIds :
       OnlyCrossingBars(fromId, toId)

\* C2: a station in the visited set of two or more lines is the transfer
\* station 30 or the start station of a line
C2_SharedOnlyTransferOrStart ==
  \A sid \in AllVisited(lineStates) :
    Cardinality(LinesVisiting(lineStates, sid)) >= 2
      => sid = 30 \/ \E l \in LINES : l.start = sid

\* station 30 and a start station are each visited by two lines, and the
\* line in play is barred from a station another line owns
C2_Witness ==
  /\ Cardinality(LinesVisiting(lineStates, 30)) >= 2
  /\ \E l \in LINES : Cardinality(LinesVisiting(lineStates, l.start)) >= 2
  /\ InRound
  /\ \E fromId \in StationIds, toId \in StationIds :
       Rejects(fromId, toId) /\ KnownDistinct(fromId, toId)
         /\ ~ OwnershipOk(fromId, toId)

SamePair(s, t) == {s.a, s.b} = {t.a, t.b}

\* C3: no two segments of the board join the same pair of stations, and a
\* pair once joined is refused in both directions
C3_NoDuplicateSegments ==
  /\ \A l1 \in DOMAIN lineStates, l2 \in DOMAIN lineStates :
       \A i1 \in 1 .. Len(lineStates[l1].segments),
          i2 \in 1 .. Len(lineStates[l2].segments) :
         (l1 # l2 \/ i1 # i2)
           => ~ SamePair(lineStates[l1].segments[i1],
                         lineStates[l2].segments[i2])
  /\ InRound =>
       \A s \in Placed : ~ canConnect(s.a, s.b) /\ ~ canConnect(s.b, s.a)

\* a connection over a pair already joined passes every other test of
\* canConnect
C3_Witness ==
  \E fromId \in StationIds, toId \in StationIds :
    /\ Rejects(fromId, toId)
    /\ KnownDistinct(fromId, toId)
    /\ OwnershipOk(fromId, toId)
    /\ isStraightOrDiag(stationById(fromId), stationById(toId))
    /\ OriginOk(fromId)
    /\ stationMatchesCard(stationById(toId))
    /\ ~ pathPassesThroughStation(stationById(fromId), stationById(toId))
    /\ NoCrossing(fromId, toId)
    /\ NoLoop(toId)
    /\ ~ NoDuplicate(fromId, toId)

\* C4: the round is marked ended exactly when the draws of the round have
\* reached 8 or the center or the side count has reached 5
C4_RoundEndsExactly ==
  roundComplete <=>
    (drawsThisRound = 8 \/ centerCount = 5 \/ sideCount = 5)

\* rounds ended by the eighth draw alone
C4_Witness ==
  roundComplete /\ drawsThisRound = 8 /\ centerCount < 5 /\ sideCount < 5

\* a step that stays in the round: no round transition and no reset
SameRound == roundIndex' = roundIndex /\ order' = order /\ screen' = screen

\* the switch took effect: the last card of the deck became the current card
Switched ==
  /\ Len(deck) > 0
  /\ currentCard' = Last(deck)
  /\ deck' = Front(deck)
  /\ switchUsedThisRound'

SwitchOpen ==
  /\ screen = "game"
  /\ currentCard # NoCard
  /\ ~ buildUsedForThisCard
  /\ ~ switchUsedThisRound

AllButLines ==
  <<dataVars, order, roundIndex, cardVars, stationOwner, roundResults,
    finalResult>>

\* C6, as claimed: a rejected attemptConnection changes nothing, the set of
\* lines with a build state included
C6_RejectLeavesAll ==
  [][attemptRejected => UNCHANGED <<AllButLines, lineStates>>]_vars

\* C6, amended: a rejected attemptConnection changes nothing but the lazy
\* creation of the build state of the line in play, with no segment, no
\* endpoint and the start station visited; existing build states stay
C6_RejectLeavesAllButLazyState ==
  [][attemptRejected =>
       /\ UNCHANGED AllButLines
       /\ DOMAIN lineStates' = DOMAIN lineStates \cup {CurLineId}
       /\ \A l \in DOMAIN lineStates : lineStates'[l] = lineStates[l]
       /\ CurLineId \notin DOMAIN lineStates =>
            /\ lineStates'[CurLineId].segments = <<>>
            /\ lineStates'[CurLineId].endpoints = {}
            /\ lineStates'[CurLineId].visited = {currentLine.start}]_vars

\* a connection is being rejected while a line played earlier has segments
\* and the round has built none
C6_Witness ==
  /\ InRound
  /\ roundIndex >= 1
  /\ Placed # {}
  /\ CurLineId \in DOMAIN lineStates
  /\ lineStates[CurLineId].segments = <<>>
  /\ \E fromId \in StationIds, toId \in StationIds : Rejects(fromId, toId)

\* a game can be played: the line order is set, a deck is built and draw is
\* enabled
Playable ==
  screen = "game" /\ order # <<>> /\ Len(deck) > 0 /\ ~ btnDrawDisabled

\* C7: while the station dataset has not loaded, or has failed to load, no
\* game is started
C7_NoGameWithoutData == dataStatus # "loaded" => ~ Playable

\* the current card is still good for a build
CardUnused == currentCard # NoCard /\ ~ buildUsedForThisCard

\* C8: a segment is added only under an active card not yet used, one
\* segment at a time, and the card is then used (or gone with the round);
\* the line in play never has more segments than cards drawn and used up
C8_OneBuildPerCard ==
  /\ [](InRound =>
          CurSegments + (IF CardUnused THEN 1 ELSE 0) <= drawsThisRound)
  /\ [](buildUsedForThisCard => currentCard # NoCard)
  /\ [][TotalSegments' > TotalSegments =>
          /\ CardUnused
          /\ TotalSegments' = TotalSegments + 1
          /\ \/ SameRound /\ buildUsedForThisCard' /\ currentCard' = currentCard
             \/ roundIndex' = roundIndex + 1 /\ ~ CardUnused']_vars

\* the card is used for a segment and a further connection that canConnect
\* accepts is held back by the flag alone
C8_Witness ==
  /\ InRound
  /\ buildUsedForThisCard
  /\ CurSegments >= 1
  /\ TotalSegments < MaxSegments
  /\ \E fromId \in StationIds, toId \in StationIds :
       ClickGuard(fromId, toId) /\ canConnect(fromId, toId)

\* C9: the current card changes without a draw only by a switch, which
\* needs the switch unused in the round, marks it used and leaves the three
\* counters; once used, the switch stays used until the round transition
C9_SwitchOncePerRound ==
  /\ [][switchCard(Streams) =>
          /\ drawsThisRound' = drawsThisRound
          /\ centerCount' = centerCount
          /\ sideCount' = sideCount]_vars
  /\ [][currentCard' # currentCard /\ drawsThisRound' = drawsThisRound =>
          /\ ~ switchUsedThisRound
          /\ switchUsedThisRound'
          /\ centerCount' = centerCount
          /\ sideCount' = sideCount]_vars
  /\ [][switchUsedThisRound /\ SameRound => switchUsedThisRound']_vars

\* in a later round the switch is used again: one card more has left the
\* deck than draws were counted
C9_Witness ==
  /\ InRound
  /\ roundIndex >= 1
  /\ switchUsedThisRound
  /\ CardUnused
  /\ ~ roundComplete
  /\ Len(deck) = Len(BaseDeck) - drawsThisRound - 1

\* C10: draw() in a round marked ended changes neither the deck, the current
\* card, the three counters nor the build-used flag
C10_DrawNoOpWhenEnded ==
  [][roundComplete =>
       /\ drawCard(Streams) =>
            UNCHANGED <<deck, currentCard, drawsThisRound, centerCount,
                        sideCount, buildUsedForThisCard>>
       /\ SameRound =>
            UNCHANGED <<drawsThisRound, centerCount, sideCount>>]_vars

\* a round marked ended with a card in hand and cards left in the deck
C10_Witness ==
  InRound /\ roundComplete /\ currentCard # NoCard /\ Len(deck) > 0

\* one of the three conditions under which switchCard returns at once
SwitchShut == currentCard = NoCard \/ buildUsedForThisCard \/ switchUsedThisRound

\* C11: switchCard() with no card active, or the card already used for a
\* build, or the switch already used this round, leaves the current card,
\* the deck and the switch-used flag; in such a state nothing but a draw, a
\* round transition or a reset changes any of the three
C11_SwitchNoOp ==
  /\ [][SwitchShut /\ switchCard(Streams) =>
          UNCHANGED <<currentCard, deck, switchUsedThisRound>>]_vars
  /\ [][SwitchShut /\ SameRound /\ drawsThisRound' = drawsThisRound =>
          UNCHANGED <<currentCard, deck, switchUsedThisRound>>]_vars

\* a card was used for a build while the switch is still unused and cards
\* are left in the deck: only the build-used flag holds the switch back
C11_Witness ==
  /\ InRound
  /\ currentCard # NoCard
  /\ buildUsedForThisCard
  /\ ~ switchUsedThisRound
  /\ Len(deck) > 0

\* the step is what nextRound does after scoring the line in play on its
\* build state after the step
AdvancedWithNewSegment ==
  /\ roundIndex' = roundIndex + 1
  /\ CurLineId \in DOMAIN lineStates'
  /\ Len(lineStates'[CurLineId].segments) = CurSegments + 1
  /\ roundResults' =
       Append(roundResults,
              computeCurrentRoundScore(CurLineId, lineStates'[CurLineId]))
  /\ IF roundIndex + 1 >= Len(order)
     THEN finalResult' = finishGame(lineStates', roundResults')
     ELSE /\ finalResult' = NoResult
          /\ CurLineId' # CurLineId
          /\ Len(deck') = Len(BaseDeck)
          /\ drawsThisRound' = 0 /\ centerCount' = 0 /\ sideCount' = 0
          /\ currentCard' = NoCard
          /\ ~ buildUsedForThisCard'
          /\ ~ roundComplete'
          /\ ~ switchUsedThisRound'

\* C12: a build that succeeds while the round is marked ended moves the
\* round on in the same step: the line is scored with the new segment in its
\* build state, and the next line is set up or the game is finished
C12_BuildInEndedRoundAdvances ==
  [][roundComplete /\ TotalSegments' > TotalSegments =>
       AdvancedWithNewSegment]_vars

\* the game was finished by a build in the ended last round: the card is
\* still marked used, and the last line was scored on the start station
\* and the station the build reached
C12_Witness ==
  /\ finalResult # NoResult
  /\ buildUsedForThisCard
  /\ Len(roundResults) = Len(order)
  /\ Len(lineStates[order[Len(order)]].segments) >= 1
  /\ Last(roundResults).FP >= 2

\* a step that places a segment, and the segment it places
Built == TotalSegments' > TotalSegments
NewSeg == Last(lineStates'[CurLineId].segments)

\* the open endpoints of the line in play, none before its build state exists
CurEndpoints == IF CurLineId \in DOMAIN lineStates
                THEN lineStates[CurLineId].endpoints ELSE {}

\* how many of the first n segments of segs meet station id
Degree(segs, n, id) ==
  Cardinality({ k \in 1 .. n : segs[k].a = id \/ segs[k].b = id })

\* every test of canConnect but the origin test lets the pair through
OnlyOriginBars(fromId, toId) ==
  /\ Rejects(fromId, toId)
  /\ KnownDistinct(fromId, toId)
  /\ OwnershipOk(fromId, toId)
  /\ isStraightOrDiag(stationById(fromId), stationById(toId))
  /\ ~ OriginOk(fromId)
  /\ stationMatchesCard(stationById(toId))
  /\ ~ pathPassesThroughStation(stationById(fromId), stationById(toId))
  /\ NoDuplicate(fromId, toId)
  /\ NoCrossing(fromId, toId)
  /\ NoLoop(toId)

\* C13: the first segment of a line leaves the line's start station, and
\* every later segment leaves a station that was an open endpoint of the
\* line when it was accepted, that is a station of odd degree in the
\* segments placed before it
C13_OriginLegal ==
  /\ [][Built =>
          IF CurSegments = 0 THEN NewSeg.a = StartOf(CurLineId)
          ELSE NewSeg.a \in CurEndpoints]_vars
  /\ [](\A l \in DOMAIN lineStates :
          LET segs == lineStates[l].segments
          IN \A i \in 1 .. Len(segs) :
               IF i = 1 THEN segs[i].a = StartOf(l)
               ELSE Degree(segs, i - 1, segs[i].a) % 2 = 1)

\* the line in play has two segments, and a connection from its inner
\* station is turned down by the origin test alone
C13_Witness ==
  /\ InRound
  /\ CurSegments >= 2
  /\ \E fromId \in StationIds, toId \in StationIds :
       /\ OnlyOriginBars(fromId, toId)
       /\ fromId \in lineStates[CurLineId].visited

\* the symbol of a station of the dataset
SymbolOf(id) == (CHOOSE s \in Dataset : s.id = id).type

\* the target rule, on the card in hand
TargetLegal(toId) ==
  /\ currentCard # NoCard
  /\ \/ SymbolOf(toId) = currentCard.sym
     \/ currentCard.sym = "Joker"
     \/ SymbolOf(toId) = "?"
     \/ toId = 30

\* C14: a segment is accepted only onto a target whose symbol is the
\* symbol of the card in hand, or under the Joker, or onto a "?" station, or
\* onto station 30; no connection onto another target is accepted
C14_TargetLegal ==
  /\ [][Built => TargetLegal(NewSeg.b)]_vars
  /\ [](InRound =>
          \A fromId \in KnownIds, toId \in KnownIds :
            ~ TargetLegal(toId) => ~ canConnect(fromId, toId))

\* the card in hand was used on a target that carries the letter of the
\* card: no Joker, no "?" station and not station 30
C14_Witness ==
  /\ InRound
  /\ buildUsedForThisCard
  /\ CurSegments >= 1
  /\ LET b == lineStates[CurLineId].segments[CurSegments].b
     IN /\ b # 30
        /\ SymbolOf(b) # "?"
        /\ currentCard.sym # "Joker"
        /\ SymbolOf(b) = currentCard.sym

\* the grid cell of a station of the dataset
CellOf(id) == CHOOSE s \in Dataset : s.id = id

\* on a common row, column or 45-degree diagonal
Aligned(a, b) ==
  \/ CellOf(a).x = CellOf(b).x
  \/ CellOf(a).y = CellOf(b).y
  \/ CellOf(a).x - CellOf(b).x = CellOf(a).y - CellOf(b).y
  \/ CellOf(a).x - CellOf(b).x = CellOf(b).y - CellOf(a).y

\* C15: every placed segment lies on a row, a column or a 45-degree
\* diagonal, and in every state of a round canConnect turns down every pair
\* of stations that is on none of them
C15_OnlyAligned ==
  /\ \A s \in Placed : Aligned(s.a, s.b)
  /\ InRound =>
       \A fromId \in KnownIds, toId \in KnownIds :
         ~ Aligned(fromId, toId) => ~ canConnect(fromId, toId)

\* a connection from the start station, under a card not used yet, onto a
\* station that is on none of the eight directions and that no other line
\* owns; segments already lie on the board
C15_Witness ==
  /\ Placed # {}
  /\ \E fromId \in StationIds, toId \in StationIds :
       /\ Rejects(fromId, toId)
       /\ KnownDistinct(fromId, toId)
       /\ ~ Aligned(fromId, toId)
       /\ OwnershipOk(fromId, toId)
       /\ OriginOk(fromId)
       /\ stationMatchesCard(stationById(toId))
       /\ NoLoop(toId)

\* the ids a connection is asked for: the stations and an id of no station
ProbeIds == StationIds \cup {0}

\* C16: no placed segment joins a station to itself or involves an id of no
\* station, and in every state of a round canConnect turns down every pair
\* of equal ids and every pair with an id that is not a known station
C16_KnownDistinctOnly ==
  /\ \A s \in Placed :
       s.a # s.b /\ s.a \in StationIds /\ s.b \in StationIds
  /\ InRound =>
       \A fromId \in ProbeIds, toId \in ProbeIds :
         (fromId = toId \/ fromId \notin KnownIds \/ toId \notin KnownIds)
           => ~ canConnect(fromId, toId)

\* an open endpoint is clicked twice under a card that its symbol matches
C16_Witness ==
  /\ Placed # {}
  /\ \E id \in StationIds :
       /\ Rejects(id, id)
       /\ id \in CurEndpoints
       /\ stationMatchesCard(stationById(id))

\* station st of the dataset lies on the segment from a to b, off its ends
StrictlyBetween(st, a, b) ==
  /\ st.id # a /\ st.id # b
  /\ (CellOf(b).x - CellOf(a).x) * (st.y - CellOf(a).y)
       = (CellOf(b).y - CellOf(a).y) * (st.x - CellOf(a).x)
  /\ Min(CellOf(a).x, CellOf(b).x) <= st.x
  /\ st.x <= Max(CellOf(a).x, CellOf(b).x)
  /\ Min(CellOf(a).y, CellOf(b).y) <= st.y
  /\ st.y <= Max(CellOf(a).y, CellOf(b).y)

PassesStation(a, b) == \E st \in Dataset : StrictlyBetween(st, a, b)

\* a segment longer than one cell
Long(s) ==
  \/ Abs(CellOf(s.a).x - CellOf(s.b).x) >= 2
  \/ Abs(CellOf(s.a).y - CellOf(s.b).y) >= 2

\* every test of canConnect but the pass-through test lets the pair through
OnlyPassThroughBars(fromId, toId) ==
  /\ Rejects(fromId, toId)
  /\ KnownDistinct(fromId, toId)
  /\ OwnershipOk(fromId, toId)
  /\ isStraightOrDiag(stationById(fromId), stationById(toId))
  /\ OriginOk(fromId)
  /\ stationMatchesCard(stationById(toId))
  /\ pathPassesThroughStation(stationById(fromId), stationById(toId))
  /\ NoDuplicate(fromId, toId)
  /\ NoCrossing(fromId, toId)
  /\ NoLoop(toId)

\* C17: no station of the dataset, whoever owns it, lies strictly between
\* the two ends of a placed segment, and in every state of a round
\* canConnect turns down every pair with a station in between
C17_NoPassThrough ==
  /\ \A s \in Placed : ~ PassesStation(s.a, s.b)
  /\ InRound =>
       \A fromId \in KnownIds, toId \in KnownIds :
         PassesStation(fromId, toId) => ~ canConnect(fromId, toId)

\* a segment over a free cell is on the board, and a connection over a
\* station that no line has touched is turned down by the pass-through test
\* alone
C17_Witness ==
  /\ \E s \in Placed : Long(s)
  /\ \E fromId \in StationIds, toId \in StationIds :
       /\ OnlyPassThroughBars(fromId, toId)
       /\ \E st \in Dataset :
            /\ StrictlyBetween(st, fromId, toId)
            /\ st.id \notin AllVisited(lineStates)

\* the stations that are in exactly one of two sets
SymDiff(A, B) == (A \ B) \cup (B \ A)

\* C18: for every line, the open endpoints are the stations that an odd
\* number of the line's segments meet, and an accepted connection changes
\* the endpoint set of the line in exactly the two stations it joins
C18_EndpointsOddDegree ==
  /\ [](\A l \in DOMAIN lineStates :
          LET segs == lineStates[l].segments
          IN \A id \in StationIds :
               id \in lineStates[l].endpoints
                 <=> Degree(segs, Len(segs), id) % 2 = 1)
  /\ [](\A l \in DOMAIN lineStates : lineStates[l].endpoints \subseteq StationIds)
  /\ [][Built =>
          /\ SymDiff(CurEndpoints, lineStates'[CurLineId].endpoints)
               = {NewSeg.a, NewSeg.b}
          /\ NewSeg.a # NewSeg.b]_vars

\* a line has a station that two of its segments meet: toggled in and out
\* again, it is visited and no open endpoint
C18_Witness ==
  \E l \in DOMAIN lineStates :
    \E id \in lineStates[l].visited :
      /\ Degree(lineStates[l].segments, Len(lineStates[l].segments), id) = 2
      /\ id \notin lineStates[l].endpoints
      /\ Cardinality(lineStates[l].endpoints) = 2

\* seq p is a prefix of seq q
IsPrefix(p, q) == Len(p) <= Len(q) /\ SubSeq(q, 1, Len(p)) = p

\* C19: a step that is no reset (no start of a game and no return to the
\* menu) keeps every build state, removes no station from a visited set and
\* no segment from a segment list; the visited set of a build state always
\* holds the start station of its line
C19_VisitedGrows ==
  /\ [][screen' = screen =>
          \A l \in DOMAIN lineStates :
            /\ l \in DOMAIN lineStates'
            /\ lineStates[l].visited \subseteq lineStates'[l].visited
            /\ IsPrefix(lineStates[l].segments, lineStates'[l].segments)]_vars
  /\ [](\A l \in DOMAIN lineStates : StartOf(l) \in lineStates[l].visited)

\* a line of two segments has visited three stations while the build state
\* of a line played before it is still there
C19_Witness ==
  /\ InRound
  /\ roundIndex >= 1
  /\ order[1] \in DOMAIN lineStates
  /\ CurSegments >= 2
  /\ Cardinality(lineStates[CurLineId].visited) >= 3

\* the reference formula, on the metadata of the loaded dataset
RefDistrict(d, visited) == { m \in stationMetaById : m.id \in visited /\ m.district = d }

RefDistricts(visited) ==
  { m.district : m \in { n \in stationMetaById : n.id \in visited } }
    \ {NoDistrict}

RefPK(visited) == Cardinality(RefDistricts(visited))

RefPM(visited) ==
  IF RefDistricts(visited) = {} THEN 0
  ELSE CHOOSE n \in 1 .. Cardinality(visited) :
         /\ \E d \in RefDistricts(visited) :
              Cardinality(RefDistrict(d, visited)) = n
         /\ \A d \in RefDistricts(visited) :
              Cardinality(RefDistrict(d, visited)) <= n

CrossBank(seg) ==
  \E ma \in stationMetaById, mb \in stationMetaById :
    /\ ma.id = seg.a /\ mb.id = seg.b
    /\ ma.side # NoSide /\ mb.side # NoSide
    /\ ma.side # mb.side

RefPD(segs) == Cardinality({ i \in 1 .. Len(segs) : CrossBank(segs[i]) })

\* C20: the result recorded at the end of a round is the reference formula
\* on the build state of the line of the round: PK districts among the
\* visited stations, PM the most visited stations of one district (0 without
\* districts), PD the segments between different river sides, and
\* FP = PK * PM + PD
C20_RoundScoreIsReference ==
  /\ [][Len(roundResults') = Len(roundResults) + 1 =>
          LET r == Last(roundResults')
              LS == lineStates'[CurLineId]
          IN /\ roundResults' = Append(roundResults, r)
             /\ r.lineId = CurLineId
             /\ r.PK = RefPK(LS.visited)
             /\ r.PM = RefPM(LS.visited)
             /\ r.PD = RefPD(LS.segments)
             /\ r.FP = RefPK(LS.visited) * RefPM(LS.visited)
                         + RefPD(LS.segments)]_vars
  /\ [](\A i \in 1 .. Len(roundResults) :
          roundResults[i].FP
            = roundResults[i].PK * roundResults[i].PM + roundResults[i].PD)

\* a line that visited three stations of one district and one of another
\* over one segment between the river sides was scored PK = 2, PM = 3,
\* PD = 1, FP = 7
C20_Witness ==
  \E i \in 1 .. Len(roundResults) :
    LET r == roundResults[i]
    IN /\ r.PK = 2 /\ r.PM = 3 /\ r.PD = 1 /\ r.FP = 7
       /\ Cardinality(lineStates[r.lineId].visited) = 4
       /\ Len(lineStates[r.lineId].segments) = 3

\* how many lines of the build states ls have visited station sid
Touch(ls, sid) == Cardinality({ l \in DOMAIN ls : sid \in ls[l].visited })

\* stations visited by at least lo and at most hi lines
Junctions(ls, lo, hi) ==
  Cardinality({ sid \in StationIds : lo <= Touch(ls, sid) /\ Touch(ls, sid) <= hi })

\* train stations of the loaded dataset that some line has visited
RefPP(ls) ==
  Cardinality({ m \in stationMetaById : m.train /\ Touch(ls, m.id) >= 1 })

RECURSIVE RefSum(_, _)
RefSum(rs, n) == IF n = 0 THEN 0 ELSE RefSum(rs, n - 1) + rs[n].FP

\* the game is finished in this step
Finishes == finalResult = NoResult /\ finalResult' # NoResult

\* C21: the final score shown at the end of the game is the sum of FP over
\* the recorded rounds + PP + 2 * P2 + 5 * P3 + 9 * P4, with PP the train
\* stations visited by any line, and P2, P3, P4 the stations visited by
\* exactly two, exactly three, and four or more lines
C21_FinalScoreIsReference ==
  /\ [][Finishes =>
          LET nLines == Cardinality(LineIds)
              f == finalResult'
          IN /\ f.PP = RefPP(lineStates')
             /\ f.P2 = Junctions(lineStates', 2, 2)
             /\ f.P3 = Junctions(lineStates', 3, 3)
             /\ f.P4 = Junctions(lineStates', 4, nLines)
             /\ f.finalScore
                  = RefSum(roundResults', Len(roundResults'))
                    + f.PP + 2 * f.P2 + 5 * f.P3 + 9 * f.P4]_vars
  /\ [][roundIndex < Len(order) /\ roundIndex' = Len(order)
          /\ order' = order => Finishes]_vars

\* a finished game in which all four lines have visited station 30: it
\* counts in P4 alone, and with three train stations visited and round
\* scores 3, 1, 3, 2 the final score is 9 + 3 + 9
C21_Witness ==
  /\ finalResult # NoResult
  /\ Touch(lineStates, 30) = 4
  /\ finalResult.P4 = 1
  /\ finalResult.P3 = 0
  /\ finalResult.P2 = 0
  /\ finalResult.PP = 3
  /\ finalResult.finalScore = 21

\* a game is on: startGame has set the line order
InGame == screen = "game"

Fresh ==
  /\ lineStates = EmptyMap
  /\ stationOwner = EmptyMap
  /\ roundResults = <<>>
  /\ roundIndex = 0
  /\ drawsThisRound = 0 /\ centerCount = 0 /\ sideCount = 0
  /\ currentCard = NoCard
  /\ ~ buildUsedForThisCard
  /\ ~ roundComplete
  /\ ~ switchUsedThisRound
  /\ finalResult = NoResult

\* the deck holds the ten cards, each once
FullDeck(d) ==
  /\ Len(d) = Len(BaseDeck)
  /\ { d[i] : i \in 1 .. Len(d) } = { BaseDeck[i] : i \in 1 .. Len(BaseDeck) }

\* C23: a reset leaves no build state, no owner, no round result and the
\* round state at its initial values, and the start of a game adds a full
\* deck of ten cards and a line order, whatever the game before had built
C23_ResetThenStart ==
  /\ [][screen' # screen =>
          /\ Fresh'
          /\ IF screen' = "game" THEN FullDeck(deck') ELSE deck' = <<>>]_vars
  /\ [](screen = "menu" => Fresh /\ deck = <<>>)

\* a finished game with segments, owners and results, which the reset is
\* about to clear
C23_Witness ==
  /\ InGame
  /\ finalResult # NoResult
  /\ Placed # {}
  /\ DOMAIN stationOwner # {}
  /\ Len(roundResults) = 4
  /\ switchUsedThisRound
  /\ buildUsedForThisCard

\* C24: station 30 never has an owner; every owned station is in the
\* visited set of the line that owns it; a build gives the two stations of
\* its segment, 30 apart, to the line in play where they had no owner or
\* are the start station of the line, and changes no other owner; nothing
\* but a build or a reset changes the ownership map
C24_OwnershipAssignment ==
  /\ [](30 \notin DOMAIN stationOwner)
  /\ [](\A sid \in DOMAIN stationOwner :
          /\ stationOwner[sid] \in DOMAIN lineStates
          /\ sid \in lineStates[stationOwner[sid]].visited)
  /\ [][Built =>
          /\ \A sid \in DOMAIN stationOwner :
               /\ sid \in DOMAIN stationOwner'
               /\ stationOwner'[sid] # stationOwner[sid] =>
                    /\ sid = StartOf(CurLineId)
                    /\ sid \in {NewSeg.a, NewSeg.b}
          /\ \A sid \in DOMAIN stationOwner' \ DOMAIN stationOwner :
               sid \in {NewSeg.a, NewSeg.b}
          /\ \A sid \in {NewSeg.a, NewSeg.b} \ {30} :
               /\ sid \in DOMAIN stationOwner'
               /\ (sid \notin DOMAIN stationOwner \/ sid = StartOf(CurLineId))
                    => stationOwner'[sid] = CurLineId]_vars
  /\ [][~ Built /\ screen' = screen => stationOwner' = stationOwner]_vars

\* a line has taken its start station back from the line that reached it
\* first, while station 30 is visited and has no owner
C24_Witness ==
  /\ 30 \in AllVisited(lineStates)
  /\ \E l \in DOMAIN lineStates, k \in DOMAIN lineStates :
       /\ l # k
       /\ StartOf(l) \in lineStates[k].visited
       /\ StartOf(l) \in DOMAIN stationOwner
       /\ stationOwner[StartOf(l)] = l

\* C25: a round transition, by the End button or after a build, is taken
\* only from a state with the round marked ended, and while a round is not
\* marked ended the End button is disabled
C25_TransitionOnlyWhenEnded ==
  /\ [](InGame /\ ~ roundComplete => btnEndDisabled)
  /\ [][screen' = screen
          /\ (roundIndex' # roundIndex \/ roundResults' # roundResults)
          => roundComplete]_vars

\* in a later round marked ended both ways on are open: the End button is
\* enabled and a connection would be accepted
C25_Witness ==
  /\ InRound
  /\ roundIndex >= 1
  /\ roundComplete
  /\ ~ btnEndDisabled
  /\ \E fromId \in StationIds, toId \in StationIds : Accepts(fromId, toId)

\* every test of canConnect but the loop test lets the pair through
OnlyLoopBars(fromId, toId) ==
  /\ Rejects(fromId, toId)
  /\ KnownDistinct(fromId, toId)
  /\ OwnershipOk(fromId, toId)
  /\ isStraightOrDiag(stationById(fromId), stationById(toId))
  /\ OriginOk(fromId)
  /\ stationMatchesCard(stationById(toId))
  /\ ~ pathPassesThroughStation(stationById(fromId), stationById(toId))
  /\ NoDuplicate(fromId, toId)
  /\ NoCrossing(fromId, toId)
  /\ ~ NoLoop(toId)

\* C26: the segments of a line form a simple path: a line with a segment
\* has exactly two open endpoints, no station meets more than two segments
\* of the line, and the line has visited one station more than it has
\* segments
C26_SimplePath ==
  \A l \in DOMAIN lineStates :
    LET LS == lineStates[l]
        n == Len(LS.segments)
    IN /\ Cardinality(LS.endpoints) = (IF n >= 1 THEN 2 ELSE 0)
       /\ \A id \in StationIds : Degree(LS.segments, n, id) <= 2
       /\ Cardinality(LS.visited) = n + 1

\* the line in play has two segments and the connection that would close
\* them to a triangle is turned down by the loop test alone
C26_Witness ==
  /\ InRound
  /\ CurSegments >= 2
  /\ \E fromId \in StationIds, toId \in StationIds :
       OnlyLoopBars(fromId, toId)

\* the only points two segments have in common are stations of both
MeetOnlyInSharedStation(s, t) ==
  LET a == CellOf(s.a)
      b == CellOf(s.b)
      c == CellOf(t.a)
      d == CellOf(t.b)
  IN \A px \in Min(2 * a.x, 2 * b.x) .. Max(2 * a.x, 2 * b.x),
        py \in Min(2 * a.y, 2 * b.y) .. Max(2 * a.y, 2 * b.y) :
       OnHalfGrid(px, py, a, b) /\ OnHalfGrid(px, py, c, d)
         => \E id \in {s.a, s.b} \cap {t.a, t.b} :
              px = 2 * CellOf(id).x /\ py = 2 * CellOf(id).y

\* C27: two placed segments with a common endpoint station, of one line or
\* of two, have no other point in common: none lies along the other
C27_SharedEndpointNoOverlap ==
  \A s \in Placed, t \in Placed :
    s # t /\ ShareStation(s, t) => MeetOnlyInSharedStation(s, t)

\* two segments of two lines meet in a station, and a connection that would
\* run from an end of a placed segment along it and beyond its other end is
\* turned down by the pass-through test alone
C27_Witness ==
  /\ \E s \in Placed, t \in Placed : s # t /\ ShareStation(s, t)
  /\ roundIndex >= 1
  /\ \E fromId \in StationIds, toId \in StationIds :
       /\ OnlyPassThroughBars(fromId, toId)
       /\ \E s \in Placed :
            \/ s.a = fromId /\ StrictlyBetween(CellOf(s.b), fromId, toId)
            \/ s.b = fromId /\ StrictlyBetween(CellOf(s.a), fromId, toId)

\* the cards of a deck
CardsOf(d) == { d[i] : i \in 1 .. Len(d) }

\* C28: in a game the deck is the ten-card deck of the start of the round
\* less one card a draw and one for the switch, and is never empty; the
\* draws of a round never pass 8 and the platform counts never pass 5; a
\* card that becomes the current card inside a round is the last card of
\* the deck and leaves it, so that no card comes up twice in a round
C28_DeckNeverExhausted ==
  /\ [](InGame =>
          /\ Len(deck) = 10 - drawsThisRound
                          - (IF switchUsedThisRound THEN 1 ELSE 0)
          /\ Len(deck) >= 1
          /\ drawsThisRound <= 8 /\ centerCount <= 5 /\ sideCount <= 5
          /\ Cardinality(CardsOf(deck)) = Len(deck)
          /\ CardsOf(deck) \subseteq CardsOf(BaseDeck)
          /\ currentCard \notin CardsOf(deck))
  /\ [][SameRound /\ (deck' # deck \/ currentCard' # currentCard) =>
          /\ Len(deck) >= 1
          /\ deck' = Front(deck)
          /\ currentCard' = Last(deck)]_vars

\* eight draws and the switch of a round have left one card in the deck
C28_Witness ==
  /\ InRound
  /\ drawsThisRound = 8
  /\ switchUsedThisRound
  /\ Len(deck) = 1

\* every test of canConnect but the ownership test lets the pair through
OnlyOwnershipBars(fromId, toId) ==
  /\ Rejects(fromId, toId)
  /\ KnownDistinct(fromId, toId)
  /\ ~ OwnershipOk(fromId, toId)
  /\ isStraightOrDiag(stationById(fromId), stationById(toId))
  /\ OriginOk(fromId)
  /\ stationMatchesCard(stationById(toId))
  /\ ~ pathPassesThroughStation(stationById(fromId), stationById(toId))
  /\ NoDuplicate(fromId, toId)
  /\ NoCrossing(fromId, toId)
  /\ NoLoop(toId)

\* C29: a station visited by three or more lines is station 30, the start
\* station of a line is visited by at most two lines, and a finished game
\* shows P3 + P4 <= 1
C29_OnlyTransferByThree ==
  /\ \A sid \in AllVisited(lineStates) :
       Touch(lineStates, sid) >= 3 => sid = 30
  /\ \A l \in LINES : Touch(lineStates, l.start) <= 2
  /\ finalResult # NoResult => finalResult.P3 + finalResult.P4 <= 1

\* the start station of a line is visited by its line and one other, and a
\* third line is kept off it by the ownership test alone
C29_Witness ==
  \E l \in LINES :
    /\ Touch(lineStates, l.start) = 2
    /\ InRound
    /\ l.start \notin CurLS.visited
    /\ \E fromId \in StationIds : OnlyOwnershipBars(fromId, l.start)

====
